---------------------------- MODULE Spec2Model ----------------------------
(***************************************************************************)
(* Cashflow schedule generator, XIRR solver, curve interpolation, date     *)
(* utilities and the analyze_CRI / xsov_anbima / npv_anbima valuation of   *)
(* the CRI valuation core                                                  *)
(* (core/utils/cashflow.py, core/utils/helpers_dates.py,                   *)
(* core/utils/helpers_calcs.py, core/utils/rates.py,                       *)
(* core/utils/business_days.py).                                           *)
(*                                                                         *)
(* Numbers.  The code computes in binary floating point and rounds every   *)
(* monetary field of a row to 2 decimals.  Here the unrounded values are   *)
(* exact rationals <<numerator, denominator>> (denominator > 0, lowest     *)
(* terms) and the rounded row fields are integers counting cents.  The     *)
(* monthly rates used (0 and 1/2) keep every numerator and denominator     *)
(* inside machine integers; the algorithm does not depend on the rate's    *)
(* size.  Optional values (None in the code) are <<>>, a present value v   *)
(* is <<v>>.                                                               *)
(***************************************************************************)
EXTENDS Integers, Sequences, FiniteSets, TLC

VARIABLES
    entry,          \* which function was called
    inp,            \* its arguments (CRICashflowInput / keyword arguments)
    pc,             \* position of the call
    err,            \* the exception that ended the call, "none" otherwise
    n,              \* build_cri_cashflow: resolved term
    g,              \* grace (carencia), clamped
    freq_p,         \* principal frequency, clamped
    freq_j,         \* interest frequency, clamped
    tab,            \* normalised interest table
    cap_calls,      \* capital-call vector, period -> amount
    i_m,            \* monthly effective rate
    dates,          \* period -> date
    parcela_price,  \* level Price installment, None when not computed
    t,              \* loop index of the period loop
    saldo,          \* running balance
    juros_accum,    \* interest accrual buffer
    rows,           \* schedule rows appended so far
    summary,        \* the summary dict, None until returned
    xi,             \* state of a _xirr / current_xirr call
    an,             \* state of an analyze_CRI / xsov_anbima call and its stores
    ip,             \* state of an interpolar_taxas call
    conc,           \* concurrent analyze_CRI invocations and the files they share
    dcall              \* state of a call of a date utility

sched_vars == <<entry, inp, pc, err, n, g, freq_p, freq_j, tab, cap_calls, i_m,
                dates, parcela_price, t, saldo, juros_accum, rows, summary>>
vars == <<entry, inp, pc, err, n, g, freq_p, freq_j, tab, cap_calls, i_m,
          dates, parcela_price, t, saldo, juros_accum, rows, summary, xi,
          an, ip, conc, dcall>>

None == <<>>
Some(v) == <<v>>
Get(o) == o[1]

----------------------------------------------------------------------------
(* Bounds of the explored inputs *)

MaxN == 4
MaxGrace == 2

----------------------------------------------------------------------------
(* Exact rational arithmetic standing for the code's float arithmetic *)

Abs(x) == IF x < 0 THEN -x ELSE x
Max(a, b) == IF a >= b THEN a ELSE b
Min(a, b) == IF a <= b THEN a ELSE b

RECURSIVE GCD(_, _)
GCD(a, b) == IF b = 0 THEN a ELSE GCD(b, a % b)

Rat(nu, de) ==
    LET s == IF de < 0 THEN -1 ELSE 1
        d == GCD(Abs(nu), Abs(de))
    IN  <<(s * nu) \div d, (s * de) \div d>>

Zero == <<0, 1>>
One == <<1, 1>>
FromInt(k) == <<k, 1>>

RAdd(x, y) ==
    LET d == GCD(x[2], y[2])
        l == (x[2] \div d) * y[2]
    IN  Rat(x[1] * (l \div x[2]) + y[1] * (l \div y[2]), l)
RNeg(x) == <<-x[1], x[2]>>
RSub(x, y) == RAdd(x, RNeg(y))
RMul(x, y) ==
    LET g1 == GCD(Abs(x[1]), y[2])
        g2 == GCD(Abs(y[1]), x[2])
    IN  Rat((x[1] \div g1) * (y[1] \div g2), (x[2] \div g2) * (y[2] \div g1))
RInv(y) == IF y[1] < 0 THEN <<-y[2], -y[1]>> ELSE <<y[2], y[1]>>
RDiv(x, y) == RMul(x, RInv(y))
RLt(x, y) == RSub(x, y)[1] < 0
RLe(x, y) == RSub(x, y)[1] <= 0
RMax(x, y) == IF RLt(x, y) THEN y ELSE x
RMin(x, y) == IF RLt(y, x) THEN y ELSE x
RECURSIVE RPow(_, _)
RPow(x, k) == IF k = 0 THEN One ELSE RMul(x, RPow(x, k - 1))

\* round(x, 2): the nearest cent, an exact tie going to the even cent.
Round2(x) ==
    LET whole == x[1] \div x[2]
        r == x[1] % x[2]
        c == (r * 100) \div x[2]
        rem == (r * 100) % x[2]
        base == whole * 100 + c
    IN  IF 2 * rem > x[2] THEN base + 1
        ELSE IF 2 * rem < x[2] THEN base
        ELSE IF base % 2 = 0 THEN base ELSE base + 1

----------------------------------------------------------------------------
(* Dates: records [y, m, d] *)

MkDate(y, m, d) == [y |-> y, m |-> m, d |-> d]
IsLeap(y) == (y % 4 = 0 /\ y % 100 # 0) \/ y % 400 = 0
DaysInMonth(y, m) ==
    IF m = 2 THEN (IF IsLeap(y) THEN 29 ELSE 28)
    ELSE IF m \in {4, 6, 9, 11} THEN 30 ELSE 31
DateLt(a, b) ==
    \/ a.y < b.y
    \/ a.y = b.y /\ a.m < b.m
    \/ a.y = b.y /\ a.m = b.m /\ a.d < b.d
DateLe(a, b) == a = b \/ DateLt(a, b)

\* pd.Timestamp(d) + pd.DateOffset(months=m): the day is kept, clamped to the
\* last day of the target month.
add_months(d, m) ==
    LET total == d.y * 12 + (d.m - 1) + m
        ny == total \div 12
        nm == (total % 12) + 1
    IN  MkDate(ny, nm, Min(d.d, DaysInMonth(ny, nm)))

months_diff_approx(d1, d2) ==
    LET months == (d2.y - d1.y) * 12 + (d2.m - d1.m)
    IN  Max(0, IF d2.d < d1.d THEN months - 1 ELSE months)

\* The annual effective rate r is given by the rational b with 1 + r = b^12
\* (its twelfth root is not rational otherwise); (1 + r)^(1/12) - 1 = b - 1.
annual_to_monthly_effective(b) == RSub(b, One)

----------------------------------------------------------------------------
(* Inputs *)

Principals == {1000}
IssueDates == {MkDate(2024, 5, 29), MkDate(2024, 1, 31)}
Maturities == {MkDate(2024, 5, 29), MkDate(2024, 8, 15)}
\* 1 + r_aa = b^12 with b = 1 (0% a.m.) and b = 3/2 (50% a.m.)
AnnualRates == {<<1, 1>>, <<3, 2>>}
Freqs == {1, 2}
TabelaInputs == {None, Some("Integral"), Some("price"), Some("Outra")}
Methods == {"SAC", "Bullet"}
\* <<periodo_integralizacao, freq_integralizacao>>
CapPlans == {<<0, 0>>, <<2, 1>>, <<1, 2>>, <<4, 2>>}

Inputs ==
    { i \in [ principal : Principals,
              data_emissao : IssueDates,
              numero_parcelas : {None} \cup {Some(k) : k \in 0..MaxN},
              data_vencimento : {None} \cup {Some(d) : d \in Maturities},
              taxa_nominal_aa : {None} \cup {Some(b) : b \in AnnualRates},
              carencia_meses : 0..MaxGrace,
              freq_principal_meses : Freqs,
              freq_juros_meses : Freqs,
              tabela_juros : TabelaInputs,
              principal_method : Methods,
              cap : CapPlans ] :
        /\ i.numero_parcelas # None => i.data_vencimento = None
        /\ i.numero_parcelas # None => i.data_emissao = MkDate(2024, 5, 29) }

----------------------------------------------------------------------------
(* build_cri_cashflow and build_cri_cashflow_br *)

\* str.strip().title() on the table names that occur
Title(s) == IF s = "price" THEN "Price" ELSE s

NormTabela(tj) ==
    LET s == Title(IF tj = None THEN "Integral" ELSE Get(tj))
    IN  IF s \in {"Nenhuma", "None", ""} THEN "Integral" ELSE s

Steps(per, fr) == per \div fr

\* cap_calls: needs Steps # 0 when both parameters are given
CapitalCalls(notional, nn, per, fr) ==
    [idx \in 0..nn |->
        IF per # 0 /\ fr # 0
        THEN IF \E k \in 0..Steps(per, fr) : idx = k * fr
             THEN RDiv(notional, FromInt(Steps(per, fr))) ELSE Zero
        ELSE IF idx = 0 THEN notional ELSE Zero]

PriceInstallment(notional, i_ref, k) ==
    IF i_ref = Zero THEN RDiv(notional, FromInt(k))
    ELSE RDiv(RMul(notional, RMul(i_ref, RPow(RAdd(One, i_ref), k))),
              RSub(RPow(RAdd(One, i_ref), k), One))

PayInterestEveryPeriod(tt, fj) == tt > 0

PayInterest(tt, fj) == tt > 0 /\ tt % fj = 0

PayPrincipalEveryPeriod(tt, gg, fp) == tt > 0

PayPrincipal(tt, gg, fp) == tt > gg /\ tt % fp = 0

SacAmortNoPlusOne(s, nn, tt) == RDiv(s, FromInt(Max(1, nn - tt)))

SacAmort(s, nn, tt) == RDiv(s, FromInt(Max(1, nn - tt + 1)))

BulletAmort(s, nn, tt) == IF tt = nn THEN s ELSE Zero

PriceAmortUncapped(parcela, raw, s) == RMax(Zero, RSub(parcela, raw))

PriceAmort(parcela, raw, s) == RMin(RMax(Zero, RSub(parcela, raw)), s)

SaldoEnd(s, amort) == RMax(Zero, RSub(s, amort))

\* One pass of the period loop (lines 183-253) for period tt, from balance s0
\* and accrual buffer acc0: the new balance, the new buffer, and the row.
Period(tt, s0, acc0) ==
    LET capital_call == cap_calls[tt]
        s == RAdd(s0, capital_call)
        rate == IF tt > 0 THEN i_m ELSE Zero
        juros == IF tt > 0 THEN RMul(s, rate) ELSE Zero
        pay_interest == PayInterest(tt, freq_j)
        pay_principal == PayPrincipal(tt, g, freq_p)
        acc == IF tt > 0 THEN RAdd(acc0, juros) ELSE acc0
        integral == tab = "Integral"
        amort ==
            IF tt = 0 THEN Zero
            ELSE IF integral
            THEN IF pay_principal
                 THEN IF inp.principal_method = "SAC" THEN SacAmort(s, n, tt)
                      ELSE IF inp.principal_method = "Bullet" THEN BulletAmort(s, n, tt)
                      ELSE Zero
                 ELSE Zero
            ELSE IF tt > g /\ pay_principal
                 THEN PriceAmort(Get(parcela_price), acc, s) ELSE Zero
        flush ==
            /\ tt > 0
            /\ IF integral THEN pay_interest
               ELSE IF tt <= g THEN pay_interest
               ELSE pay_principal \/ pay_interest
        juros_pago == IF flush THEN acc ELSE Zero
        parcela == RAdd(juros_pago, amort)
        saldo_end ==
            IF tt = 0 THEN s
            ELSE IF integral THEN SaldoEnd(s, amort)
            ELSE IF tt > g /\ pay_principal THEN SaldoEnd(s, amort)
            ELSE s
    IN  [ saldo |-> saldo_end,
          juros_accum |-> IF flush THEN Zero ELSE acc,
          row |-> [ period |-> tt,
                    date |-> dates[tt],
                    capital_call |-> RNeg(capital_call),
                    i_mensal |-> rate,
                    saldo_inicial |-> Round2(s),
                    juros_teorico |-> Round2(juros),
                    juros_pago_no_periodo |-> Round2(juros_pago),
                    amortizacao |-> Round2(amort),
                    pagamento |-> Round2(RAdd(parcela, RNeg(capital_call))),
                    saldo_final |-> Round2(saldo_end) ] ]

Raise(kind) ==
    /\ pc' = "raised"
    /\ err' = kind
    /\ UNCHANGED <<entry, inp, n, g, freq_p, freq_j, tab, cap_calls, i_m, dates,
                   parcela_price, t, saldo, juros_accum, rows, summary>>

\* build_cri_cashflow_br (lines 287-324): resolves the term, normalises the
\* table and calls build_cri_cashflow with numero_parcelas set.
BuildCriCashflowBr ==
    /\ pc = "call" /\ entry = "build_cri_cashflow_br"
    /\ IF inp.numero_parcelas = None /\ inp.data_vencimento = None
       THEN Raise("ValueError")
       ELSE LET prazo == IF inp.numero_parcelas # None THEN Get(inp.numero_parcelas)
                         ELSE months_diff_approx(inp.data_emissao,
                                                 Get(inp.data_vencimento))
            IN  /\ inp' = [inp EXCEPT !.numero_parcelas = Some(prazo),
                                      !.tabela_juros = Some(NormTabela(inp.tabela_juros))]
                /\ entry' = "build_cri_cashflow"
                /\ UNCHANGED <<pc, err, n, g, freq_p, freq_j, tab, cap_calls, i_m,
                               dates, parcela_price, t, saldo, juros_accum, rows,
                               summary>>
    /\ UNCHANGED <<xi, an, ip, conc, dcall>>

\* build_cri_cashflow up to the period loop (lines 123-178)
Setup ==
    /\ pc = "call" /\ entry = "build_cri_cashflow"
    /\ LET notional == FromInt(inp.principal)
           issue == inp.data_emissao
           nn == IF inp.numero_parcelas # None THEN Get(inp.numero_parcelas)
                 ELSE IF inp.data_vencimento # None
                 THEN months_diff_approx(issue, Get(inp.data_vencimento))
                 ELSE 0
           gg == Max(0, inp.carencia_meses)
           tb == NormTabela(inp.tabela_juros)
           per == inp.cap[1]
           fr == inp.cap[2]
       IN  IF inp.numero_parcelas = None /\ inp.data_vencimento = None
           THEN Raise("ValueError")
           ELSE IF inp.numero_parcelas = None /\ nn <= 0
           THEN Raise("ValueError")
           ELSE IF tb \notin {"Integral", "Price"}
           THEN Raise("ValueError")
           ELSE IF per # 0 /\ fr # 0 /\ Steps(per, fr) = 0
           THEN Raise("ZeroDivisionError")
           ELSE IF inp.taxa_nominal_aa = None
           THEN Raise("ValueError")
           ELSE LET im == annual_to_monthly_effective(Get(inp.taxa_nominal_aa))
                IN  /\ n' = nn
                    /\ g' = gg
                    /\ freq_p' = Max(1, inp.freq_principal_meses)
                    /\ freq_j' = Max(1, inp.freq_juros_meses)
                    /\ tab' = tb
                    /\ cap_calls' = CapitalCalls(notional, nn, per, fr)
                    /\ i_m' = im
                    /\ dates' = [k \in 0..nn |-> add_months(issue, k)]
                    /\ parcela_price' =
                          IF tb = "Price" /\ nn - gg > 0
                          THEN Some(PriceInstallment(notional, im, nn - gg))
                          ELSE None
                    /\ t' = 0
                    /\ saldo' = Zero
                    /\ juros_accum' = Zero
                    /\ rows' = <<>>
                    /\ pc' = "loop"
                    /\ UNCHANGED <<entry, inp, err, summary>>
    /\ UNCHANGED <<xi, an, ip, conc, dcall>>

\* One iteration of `for t in range(0, n + 1)` (lines 183-253)
LoopStep ==
    /\ pc = "loop" /\ t <= n
    /\ LET p == Period(t, saldo, juros_accum)
       IN  /\ rows' = Append(rows, p.row)
           /\ saldo' = p.saldo
           /\ juros_accum' = p.juros_accum
    /\ t' = t + 1
    /\ UNCHANGED <<entry, inp, pc, err, n, g, freq_p, freq_j, tab, cap_calls, i_m,
                   dates, parcela_price, summary, xi, an, ip, conc, dcall>>

\* df[field].sum() over integer (cent) columns
RECURSIVE SumCents(_, _)
SumCents(rs, field) ==
    IF rs = <<>> THEN 0 ELSE rs[1][field] + SumCents(Tail(rs), field)

\* -df["capital_call"].sum(): the calls are kept unrounded
RECURSIVE SumCalls(_)
SumCalls(rs) ==
    IF rs = <<>> THEN Zero ELSE RAdd(RNeg(rs[1].capital_call), SumCalls(Tail(rs)))

\* the summary and the return (lines 255-280).  np.irr exists only in old
\* numpy builds; where it is missing the except branch yields NaN, so the
\* IRR field is either outcome.
Finish ==
    /\ pc = "loop" /\ t = n + 1
    /\ \E irr \in {"nan", "finite"} :
          summary' = Some([ principal |-> FromInt(inp.principal),
                            parcelas |-> n,
                            carencia_meses |-> g,
                            tabela_juros |-> tab,
                            principal_method |-> inp.principal_method,
                            freq_principal_meses |-> freq_p,
                            freq_juros_meses |-> freq_j,
                            irr_anual_equivalente |-> irr,
                            total_pagamentos |-> SumCents(rows, "pagamento"),
                            total_juros_pagos |-> SumCents(rows, "juros_pago_no_periodo"),
                            total_amortizacao |-> SumCents(rows, "amortizacao"),
                            capital_calls_total |-> SumCalls(rows) ])
    /\ pc' = "done"
    /\ UNCHANGED <<entry, inp, err, n, g, freq_p, freq_j, tab, cap_calls, i_m,
                   dates, parcela_price, t, saldo, juros_accum, rows, xi,
                   an, ip, conc, dcall>>

SchedIdle ==
    /\ n = 0 /\ g = 0 /\ freq_p = 1 /\ freq_j = 1 /\ tab = "Integral"
    /\ cap_calls = <<>> /\ i_m = Zero /\ dates = <<>> /\ parcela_price = None
    /\ t = 0 /\ saldo = Zero /\ juros_accum = Zero /\ rows = <<>>
    /\ summary = None
    /\ err = "none"

Init ==
    /\ entry \in {"build_cri_cashflow", "build_cri_cashflow_br"}
    /\ inp \in Inputs
    /\ pc = "call"
    /\ SchedIdle
    /\ xi = None /\ an = None /\ ip = None /\ conc = None /\ dcall = None

Next == BuildCriCashflowBr \/ Setup \/ LoopStep \/ Finish

Spec == Init /\ [][Next]_vars

----------------------------------------------------------------------------
(* Properties of the schedule generator, checked under Spec *)

Returned == pc = "done"
SingleCall == inp.cap[1] = 0 \/ inp.cap[2] = 0
LastRow == rows[Len(rows)]
PaidIn(r) == r.juros_pago_no_periodo + r.amortizacao

\* C1: in every schedule build_cri_cashflow returns (term n >= 1, grace
\* shorter than the term), the closing balance of the last row is 0.
C1_FinalBalanceZero ==
    (Returned /\ n >= 1 /\ g < n) => LastRow.saldo_final = 0

\* C2: in every schedule returned, the amortization of all rows adds up to
\* the capital drawn (the sum of the capital calls of the schedule), up to
\* the rounding of the rows (at most one cent per row).
C2_AmortizationSumsToCapitalDrawn ==
    (Returned /\ n >= 1 /\ g < n) =>
        Abs(Get(summary).total_amortizacao
            - Round2(Get(summary).capital_calls_total)) <= Len(rows)

\* C3: in every row of every schedule (principal > 0) the closing balance is
\* >= 0 and the amortization does not exceed the balance it is taken from;
\* the running balance itself is never negative.
C3_BalanceNonNegative ==
    /\ saldo[1] >= 0
    /\ \A k \in 1..Len(rows) :
          /\ rows[k].saldo_final >= 0
          /\ rows[k].amortizacao <= rows[k].saldo_inicial

\* C3 witness: a returned Price schedule in which the cap was binding: a
\* post-grace row amortizes its whole balance and pays less than the level
\* installment.
C3_Witness ==
    /\ Returned /\ tab = "Price" /\ parcela_price # None
    /\ \E k \in 1..Len(rows) :
          /\ rows[k].amortizacao > 0
          /\ rows[k].amortizacao = rows[k].saldo_inicial
          /\ PaidIn(rows[k]) < Round2(Get(parcela_price))

\* C4: Integral/SAC, single capital call at period 0, post-grace term a whole
\* multiple of the principal frequency: every principal-paying period
\* amortizes the same amount (within one cent of rounding).
C4_SacConstantAmortization ==
    (Returned /\ tab = "Integral" /\ inp.principal_method = "SAC" /\ SingleCall
       /\ n >= 1 /\ g < n /\ (n - g) % freq_p = 0) =>
        \A a, b \in {k \in 1..Len(rows) : PayPrincipal(rows[k].period, g, freq_p)} :
            Abs(rows[a].amortizacao - rows[b].amortizacao) <= 1

\* C5: Integral/SAC, n monthly periods, no grace, principal frequency 1, the
\* whole principal drawn at period 0 (rate >= 0): each of the periods 1..n
\* amortizes principal/n (as rounded in the row), the accrued interest does
\* not increase from one period to the next, and the closing balance of
\* period n is 0.
C5_MonthlySac ==
    (Returned /\ tab = "Integral" /\ inp.principal_method = "SAC" /\ SingleCall
       /\ n >= 1 /\ g = 0 /\ freq_p = 1) =>
        /\ \A k \in 1..n :
              rows[k + 1].amortizacao = Round2(RDiv(FromInt(inp.principal), FromInt(n)))
        /\ \A k \in 1..(n - 1) :
              rows[k + 2].juros_teorico <= rows[k + 1].juros_teorico
        /\ LastRow.saldo_final = 0

\* C5 witness: such a schedule of at least 3 periods at a positive rate has
\* been returned.
C5_Witness ==
    /\ Returned /\ tab = "Integral" /\ inp.principal_method = "SAC" /\ SingleCall
    /\ n >= 3 /\ g = 0 /\ freq_p = 1 /\ i_m # Zero
    /\ rows[2].juros_teorico > rows[4].juros_teorico

\* C6: Price table (single capital call): the payment, interest paid plus
\* amortization, is the same level amount (within one cent) in every
\* post-grace period in which a payment is made, whatever the principal and
\* interest frequencies.
C6_PriceLevelPayment ==
    (Returned /\ tab = "Price" /\ SingleCall /\ n >= 1 /\ g < n) =>
        \A a, b \in {k \in 1..Len(rows) : rows[k].period > g /\ PaidIn(rows[k]) > 0} :
            Abs(PaidIn(rows[a]) - PaidIn(rows[b])) <= 1

\* C7: with both staged-capitalization parameters given, the capital calls
\* are exactly steps = period/frequency equal calls of principal/steps at the
\* period indices 0, frequency, ..., (steps-1)*frequency, and when these all
\* fall within the term they add up to the principal.
C7_StagedCalls ==
    (pc \in {"loop", "done"} /\ ~SingleCall) =>
        LET fr == inp.cap[2]
            steps == Steps(inp.cap[1], fr)
            staged == {k * fr : k \in 0..(steps - 1)}
        IN  /\ \A idx \in 0..n :
                  cap_calls[idx] =
                      IF idx \in staged
                      THEN RDiv(FromInt(inp.principal), FromInt(steps)) ELSE Zero
            /\ (steps - 1) * fr <= n =>
                  Cardinality({idx \in 0..n : cap_calls[idx] # Zero}) = steps

\* C8: no schedule is generated when the resolved term n is <= 0, whether n
\* was given as the number of periods or derived from the maturity date, and
\* through either entry point: the call fails with an invalid-input error.
C8_NonPositiveTermRejected ==
    Returned => n > 0

\* C9: a staged-capitalization step count of zero does not make
\* build_cri_cashflow raise a division by zero.
C9_ZeroStepsDoesNotRaise ==
    err # "ZeroDivisionError"

\* the rounded accrued interest of the periods a..b
RECURSIVE AccruedOver(_, _)
AccruedOver(a, b) ==
    IF a > b THEN 0 ELSE rows[a + 1].juros_teorico + AccruedOver(a + 1, b)

\* C22: in every period t > 0 the accrued interest of the row is the period
\* rate times the closing balance of period t-1 (within a cent of rounding),
\* and period 0 accrues none.
C22_InterestOnPriorClosingBalance ==
    \A k \in 1..Len(rows) :
        IF k = 1 THEN rows[k].juros_teorico = 0
        ELSE Abs(rows[k].juros_teorico
                 - Round2(RMul(Rat(rows[k - 1].saldo_final, 100), i_m))) <= 1

\* C23: period 0 pays neither interest nor amortization; no row of a period
\* t <= grace amortizes; a row amortizes only when t is a multiple of the
\* principal frequency; under the Integral table interest is paid only in
\* rows with t > 0 and t a multiple of the interest frequency.
C23_PaymentTiming ==
    \A k \in 1..Len(rows) :
        LET r == rows[k]
        IN  /\ r.period = 0 => (r.juros_pago_no_periodo = 0 /\ r.amortizacao = 0)
            /\ r.period <= g => r.amortizacao = 0
            /\ r.amortizacao # 0 => r.period % freq_p = 0
            /\ (tab = "Integral" /\ r.juros_pago_no_periodo # 0) =>
                  (r.period > 0 /\ r.period % freq_j = 0)

\* C23 witness: a returned Integral schedule of 4 periods at a positive rate
\* with one period of grace and both frequencies 2: period 2 pays interest
\* and amortizes, period 1 does neither.
C23_Witness ==
    /\ Returned /\ tab = "Integral" /\ n = 4 /\ g = 1 /\ freq_p = 2 /\ freq_j = 2
    /\ i_m # Zero
    /\ rows[3].amortizacao > 0 /\ rows[3].juros_pago_no_periodo > 0
    /\ rows[2].amortizacao = 0 /\ rows[2].juros_pago_no_periodo = 0

\* C24: under the Integral table the interest paid in an interest-paying
\* period is the interest accrued since the previous interest-paying period
\* (within the rounding of the rows summed), the accrual buffer is zero right
\* after such a period, and no interest is paid in any other period.
C24_IntegralInterestFlush ==
    tab = "Integral" =>
        /\ \A k \in 1..Len(rows) :
              LET p == rows[k].period
              IN  IF p > 0 /\ p % freq_j = 0
                  THEN Abs(rows[k].juros_pago_no_periodo
                           - AccruedOver(p - freq_j + 1, p)) <= freq_j
                  ELSE rows[k].juros_pago_no_periodo = 0
        /\ (pc = "loop" /\ t > 1 /\ (t - 1) % freq_j = 0) => juros_accum = Zero

\* C24 witness: a returned Integral schedule with interest every 2 periods
\* at a positive rate: period 1 pays none, period 2 pays what accrued in
\* periods 1 and 2.
C24_Witness ==
    /\ Returned /\ tab = "Integral" /\ freq_j = 2 /\ n >= 2 /\ i_m # Zero
    /\ rows[2].juros_teorico > 0 /\ rows[2].juros_pago_no_periodo = 0
    /\ rows[3].juros_pago_no_periodo
          = rows[2].juros_teorico + rows[3].juros_teorico

\* C25: under Integral/Bullet the amortization is 0 in every period t < n and
\* in period n it is the whole balance of that period, whatever the grace and
\* the principal frequency.
C25_BulletAmortization ==
    (Returned /\ tab = "Integral" /\ inp.principal_method = "Bullet" /\ n >= 1) =>
        /\ \A k \in 1..n : rows[k].amortizacao = 0
        /\ rows[n + 1].amortizacao = rows[n + 1].saldo_inicial

\* C30: in every schedule returned the accrual buffer is 0 after the last
\* period, and the interest paid over all rows adds up to the interest
\* accrued over all rows (within the rounding of the rows).
C30_NoInterestLeftUnpaid ==
    Returned =>
        /\ juros_accum = Zero
        /\ Abs(SumCents(rows, "juros_pago_no_periodo")
               - SumCents(rows, "juros_teorico")) <= Len(rows)

----------------------------------------------------------------------------
(* _xirr (helpers_dates.py) and current_xirr (helpers_calcs.py)             *)
(*                                                                         *)
(* f(r) = sum cf / (1 + r)^t has real exponents, so the Newton iterates    *)
(* are not computed: each pass of the loop takes one of the branches the   *)
(* code has, and the value returned is "rate" (a float) or "nan".          *)

MaxLen == 2
MaxIter == 100

XDates == {MkDate(2024, 5, 29), MkDate(2024, 6, 29), MkDate(2025, 5, 29)}
RefDates == {MkDate(2024, 6, 29), MkDate(2025, 5, 29)}
CfValues == {-1000, 0, 1100}

SeqsUpTo(S, k) == UNION {[1..m -> S] : m \in 0..k}

AnyPositive(vs) == \E k \in 1..Len(vs) : vs[k] > 0
AnyNegative(vs) == \E k \in 1..Len(vs) : vs[k] < 0

HasInOrOut(vs) == AnyPositive(vs) \/ AnyNegative(vs)

\* any(cf > 0 ...) and any(cf < 0 ...)
HasInAndOut(vs) == AnyPositive(vs) /\ AnyNegative(vs)

\* df.sort_values("date"): stable insertion into a date-ordered sequence
RECURSIVE InsertByDate(_, _)
InsertByDate(sorted, r) ==
    IF sorted = <<>> THEN <<r>>
    ELSE IF DateLt(r.date, sorted[1].date) THEN <<r>> \o sorted
    ELSE <<sorted[1]>> \o InsertByDate(Tail(sorted), r)
RECURSIVE SortFrom(_, _)
SortFrom(acc, rest) ==
    IF rest = <<>> THEN acc ELSE SortFrom(InsertByDate(acc, rest[1]), Tail(rest))
SortByDate(df) == SortFrom(<<>>, df)

\* df[df["date"] >= ref]
RECURSIVE Future(_, _)
Future(df, ref) ==
    IF df = <<>> THEN <<>>
    ELSE IF DateLe(ref, df[1].date) THEN <<df[1]>> \o Future(Tail(df), ref)
    ELSE Future(Tail(df), ref)

Column(df, field) == [k \in 1..Len(df) |-> df[k][field]]

XirrCalls ==
    [ fn : {"_xirr"}, pc : {"xirr"},
      df : {<<>>}, ref : {MkDate(2024, 6, 29)}, pu : {None}, quantity : {None},
      dates : SeqsUpTo(XDates, MaxLen), values : SeqsUpTo(CfValues, MaxLen),
      iter : {0}, converged : {FALSE}, xirr_result : {"none"}, xirr_exc : {"none"},
      result : {"none"}, exc : {"none"} ]

CurrentXirrCalls ==
    [ fn : {"current_xirr"}, pc : {"call"},
      df : SeqsUpTo([date : XDates, pagamento : CfValues], MaxLen),
      ref : RefDates, pu : {None, Some(1000)}, quantity : {None, Some(1)},
      dates : {<<>>}, values : {<<>>},
      iter : {0}, converged : {FALSE}, xirr_result : {"none"}, xirr_exc : {"none"},
      result : {"none"}, exc : {"none"} ]

\* current_xirr up to its call of _xirr (lines 46-68)
CurrentXirr ==
    /\ xi # None /\ xi.fn = "current_xirr" /\ xi.pc = "call"
    /\ LET df == SortByDate(xi.df)
           future == Future(df, xi.ref)
           ds == Column(future, "date")
           vs == Column(future, "pagamento")
           priced == xi.pu # None /\ xi.quantity # None
       IN  IF xi.df = <<>> \/ future = <<>>
           THEN xi' = [xi EXCEPT !.pc = "done", !.result = "nan"]
           ELSE xi' = [xi EXCEPT
                         !.pc = "xirr",
                         !.dates = IF priced THEN <<xi.ref>> \o ds ELSE ds,
                         !.values = IF priced
                                    THEN <<-(Get(xi.pu) * Get(xi.quantity))>> \o vs
                                    ELSE vs]
    /\ UNCHANGED <<sched_vars, an, ip, conc, dcall>>

\* _xirr before the Newton loop (lines 114-136)
XirrEnter ==
    /\ xi # None /\ xi.pc = "xirr"
    /\ IF Len(xi.dates) # Len(xi.values)
       THEN xi' = [xi EXCEPT !.pc = "xirr_ret", !.xirr_exc = "ValueError"]
       ELSE IF Len(xi.dates) < 2
       THEN xi' = [xi EXCEPT !.pc = "xirr_ret", !.xirr_result = "nan"]
       ELSE IF ~HasInAndOut(xi.values)
       THEN xi' = [xi EXCEPT !.pc = "xirr_ret", !.xirr_result = "nan"]
       ELSE xi' = [xi EXCEPT !.pc = "newton", !.iter = 0]
    /\ UNCHANGED <<sched_vars, an, ip, conc, dcall>>

\* One pass of `for _ in range(100)` (lines 137-150)
NewtonStep ==
    /\ xi # None /\ xi.pc = "newton" /\ xi.iter < MaxIter
    /\ \/ \* abs(fv) < 1e-8: break
          xi' = [xi EXCEPT !.pc = "xirr_ret", !.xirr_result = "rate",
                           !.converged = TRUE]
       \/ \* dv == 0
          xi' = [xi EXCEPT !.pc = "xirr_ret", !.xirr_result = "nan"]
       \/ \* r_next is not finite
          xi' = [xi EXCEPT !.pc = "xirr_ret", !.xirr_result = "nan"]
       \/ \* abs(r_next - r) < 1e-8: break
          xi' = [xi EXCEPT !.pc = "xirr_ret", !.xirr_result = "rate",
                           !.converged = TRUE]
       \/ \* r = r_next, next pass
          xi' = [xi EXCEPT !.iter = xi.iter + 1]
    /\ UNCHANGED <<sched_vars, an, ip, conc, dcall>>

\* the loop ran out of passes: irr = float(r) (line 152)
NewtonExhausted ==
    /\ xi # None /\ xi.pc = "newton" /\ xi.iter = MaxIter
    /\ xi' = [xi EXCEPT !.pc = "xirr_ret", !.xirr_result = "rate"]
    /\ UNCHANGED <<sched_vars, an, ip, conc, dcall>>

\* _xirr returns or raises to its caller; current_xirr's try/except turns an
\* exception into NaN (lines 67-71)
XirrReturn ==
    /\ xi # None /\ xi.pc = "xirr_ret"
    /\ IF xi.fn = "_xirr"
       THEN xi' = [xi EXCEPT !.pc = "done", !.result = xi.xirr_result,
                             !.exc = xi.xirr_exc]
       ELSE IF xi.xirr_exc # "none"
       THEN xi' = [xi EXCEPT !.pc = "done", !.result = "nan"]
       ELSE xi' = [xi EXCEPT !.pc = "done", !.result = xi.xirr_result]
    /\ UNCHANGED <<sched_vars, an, ip, conc, dcall>>

InitXirr ==
    /\ entry = "none" /\ inp = None /\ pc = "idle"
    /\ SchedIdle
    /\ xi \in XirrCalls \cup CurrentXirrCalls
    /\ an = None /\ ip = None /\ conc = None /\ dcall = None

NextXirr == CurrentXirr \/ XirrEnter \/ NewtonStep \/ NewtonExhausted \/ XirrReturn

SpecXirr == InitXirr /\ [][NextXirr]_vars

----------------------------------------------------------------------------
(* Properties of _xirr and current_xirr, checked under SpecXirr *)

XirrReturned == xi.pc = "xirr_ret" \/ (xi.pc = "done" /\ xi.fn = "_xirr")
NoInOrNoOut(vs) == Len(vs) < 2 \/ ~AnyPositive(vs) \/ ~AnyNegative(vs)

\* C10: _xirr, given equally many dates and cashflows, returns NaN and does
\* not raise when there are fewer than 2 cashflows or the cashflows lack a
\* strictly positive or a strictly negative value; current_xirr never raises,
\* and returns NaN for an empty schedule and for one with no cashflow on or
\* after the reference date.
C10_XirrUndefined ==
    xi # None =>
        /\ (XirrReturned /\ Len(xi.dates) = Len(xi.values) /\ NoInOrNoOut(xi.values))
              => (xi.xirr_result = "nan" /\ xi.xirr_exc = "none")
        /\ (xi.fn = "_xirr" /\ xi.pc = "done")
              => (xi.result = xi.xirr_result /\ xi.exc = xi.xirr_exc)
        /\ (xi.fn = "current_xirr" /\ xi.pc = "done")
              => /\ xi.exc = "none"
                 /\ (xi.df = <<>> \/ \A k \in 1..Len(xi.df) : DateLt(xi.df[k].date, xi.ref))
                       => xi.result = "nan"

\* C10 witness: _xirr was given two dated cashflows, both inflows, and has
\* returned NaN.
C10_Witness ==
    /\ xi # None /\ xi.fn = "_xirr" /\ xi.pc = "done" /\ xi.result = "nan"
    /\ Len(xi.dates) = 2 /\ Len(xi.values) = 2
    /\ AnyPositive(xi.values) /\ ~AnyNegative(xi.values)

\* C11: _xirr returns a rate only when one of its two convergence tests was
\* met; when the loop runs its 100 passes without meeting either, the result
\* is NaN ("undefined"), not the last iterate.
C11_RateOnlyIfConverged ==
    (xi # None /\ XirrReturned /\ xi.xirr_result = "rate") => xi.converged

----------------------------------------------------------------------------
(* The ANBIMA curve: business days (business_days.py) and interpolar_taxas *)
(* (rates.py)                                                              *)
(*                                                                         *)
(* A stored rate is a rational (in percent).  interpolar_taxas works on    *)
(* logarithms and returns exp of an interpolated logarithm, in general an  *)
(* irrational number: a returned rate is therefore written by its          *)
(* logarithm to base 10, an exact rational (log-linear interpolation does  *)
(* not depend on the base), and the stored rates explored are powers of 10 *)
(* or values <= 0.                                                         *)

\* holidays of the ANBIMA calendar inside the explored window
Holidays == {MkDate(2024, 5, 30), MkDate(2024, 11, 15), MkDate(2024, 11, 20),
             MkDate(2024, 12, 25), MkDate(2025, 1, 1)}

RECURSIVE DaysBeforeMonth(_, _)
DaysBeforeMonth(y, m) ==
    IF m = 1 THEN 0 ELSE DaysInMonth(y, m - 1) + DaysBeforeMonth(y, m - 1)

\* date.toordinal(): day 1 is 0001-01-01, (ordinal + 6) % 7 = 0 on a Monday
Ordinal(d) ==
    LET p == d.y - 1
    IN  p * 365 + p \div 4 - p \div 100 + p \div 400
        + DaysBeforeMonth(d.y, d.m) + d.d

IsBusinessDay(o) ==
    (o + 6) % 7 < 5 /\ o \notin {Ordinal(h) : h \in Holidays}

\* CAL_ANBIMA.bizdays(start, end) for a business day start <= end: the
\* business days after start up to and including end.
business_days_between(start, end) ==
    Cardinality({o \in (Ordinal(start) + 1)..Ordinal(end) : IsBusinessDay(o)})

RateCols == {"taxa_nominal", "taxa_real", "inflacao_implicita"}

\* df[df["data_da_tabela"] == ref_date]
RECURSIVE RowsOfDate(_, _)
RowsOfDate(df, d) ==
    IF df = <<>> THEN <<>>
    ELSE IF df[1].data_da_tabela = d THEN <<df[1]>> \o RowsOfDate(Tail(df), d)
    ELSE RowsOfDate(Tail(df), d)

\* df.sort_values("dias_uteis")
RECURSIVE InsertByTenor(_, _)
InsertByTenor(sorted, r) ==
    IF sorted = <<>> THEN <<r>>
    ELSE IF r.dias_uteis < sorted[1].dias_uteis THEN <<r>> \o sorted
    ELSE <<sorted[1]>> \o InsertByTenor(Tail(sorted), r)
RECURSIVE SortTenorFrom(_, _)
SortTenorFrom(acc, rest) ==
    IF rest = <<>> THEN acc
    ELSE SortTenorFrom(InsertByTenor(acc, rest[1]), Tail(rest))
SortByTenor(df) == SortTenorFrom(<<>>, df)

\* log10 of a positive power of 10
RECURSIVE Log10(_)
Log10(x) ==
    IF x = One THEN 0
    ELSE IF RLt(x, One) THEN Log10(RMul(x, FromInt(10))) - 1
    ELSE Log10(RDiv(x, FromInt(10))) + 1

\* log10 of the floor 1e-12
LogEps == -12

\* yp[yp <= 0] = 1e-12; np.log(yp)
LogFloored(y) == IF y[1] <= 0 THEN FromInt(LogEps) ELSE FromInt(Log10(y))

\* np.interp with the knot above taken at a knot
NpInterpKnotAbove(x, xp, fp) ==
    IF x < xp[1] THEN fp[1]
    ELSE IF x >= xp[Len(xp)] THEN fp[Len(fp)]
    ELSE LET k == CHOOSE j \in 1..(Len(xp) - 1) : xp[j] <= x /\ x < xp[j + 1]
         IN  fp[k + 1]

\* np.interp(x, xp, fp), xp increasing: linear between the knots, the first
\* and the last value outside them
NpInterp(x, xp, fp) ==
    IF x <= xp[1] THEN fp[1]
    ELSE IF x >= xp[Len(xp)] THEN fp[Len(fp)]
    ELSE LET k == CHOOSE j \in 1..(Len(xp) - 1) : xp[j] <= x /\ x < xp[j + 1]
         IN  RAdd(fp[k], RMul(RSub(fp[k + 1], fp[k]),
                              Rat(x - xp[k], xp[k + 1] - xp[k])))

\* exp_interp (lines 44-47); the value is log10 of the float returned
exp_interp(x, xp, yp) ==
    NpInterp(x, xp, [k \in 1..Len(yp) |-> LogFloored(yp[k])])

\* interpolar_taxas (lines 18-56): None stands for the ValueError raised when
\* the frame has no row of the reference date
interpolar_taxas(df, ref_date, fluxo_date) ==
    LET df_date == SortByTenor(RowsOfDate(df, ref_date))
        dias_uteis_target == business_days_between(ref_date, fluxo_date)
        xp == Column(df_date, "dias_uteis")
    IN  IF df_date = <<>> THEN None
        ELSE Some([col \in RateCols |->
                      exp_interp(dias_uteis_target, xp, Column(df_date, col))])

Pt(d, du, nom, real, inf) ==
    [data_da_tabela |-> d, dias_uteis |-> du, taxa_nominal |-> nom,
     taxa_real |-> real, inflacao_implicita |-> inf]

CurveDate == MkDate(2024, 5, 29)
OtherCurveDate == MkDate(2024, 5, 28)

\* frames handed to interpolar_taxas: three knots (given out of order), a
\* frame with rates <= 0, a single knot, and a frame without any row of the
\* reference date
CurveFrames ==
    { << Pt(CurveDate, 6, <<100, 1>>, <<10, 1>>, <<1, 1>>),
         Pt(CurveDate, 2, <<10, 1>>, <<1, 1>>, <<10, 1>>),
         Pt(OtherCurveDate, 4, <<1, 1>>, <<1, 1>>, <<1, 1>>),
         Pt(CurveDate, 10, <<100, 1>>, <<1, 10>>, <<1, 1>>) >>,
      << Pt(CurveDate, 2, <<10, 1>>, <<0, 1>>, <<10, 1>>),
         Pt(CurveDate, 6, <<10, 1>>, <<-1, 1>>, <<1, 1>>) >>,
      << Pt(CurveDate, 6, <<10, 1>>, <<1, 1>>, <<1, 1>>) >>,
      << Pt(OtherCurveDate, 2, <<10, 1>>, <<1, 1>>, <<1, 1>>) >> }

FluxoDates ==
    {MkDate(2024, 5, d) : d \in 29..31} \cup {MkDate(2024, 6, d) : d \in 1..30}

InterpCalls ==
    [ pc : {"call"}, df : CurveFrames, data_referencia : {CurveDate},
      data_do_fluxo_futuro : FluxoDates, taxas : {None}, err : {"none"} ]

InterpolarTaxas ==
    /\ ip # None /\ ip.pc = "call"
    /\ LET taxas == interpolar_taxas(ip.df, ip.data_referencia,
                                     ip.data_do_fluxo_futuro)
       IN  IF taxas = None
           THEN ip' = [ip EXCEPT !.pc = "raised", !.err = "ValueError"]
           ELSE ip' = [ip EXCEPT !.pc = "done", !.taxas = taxas]
    /\ UNCHANGED <<sched_vars, xi, an, conc, dcall>>

InitInterp ==
    /\ entry = "none" /\ inp = None /\ pc = "idle"
    /\ SchedIdle
    /\ xi = None /\ an = None /\ conc = None /\ dcall = None
    /\ ip \in InterpCalls

NextInterp == InterpolarTaxas

SpecInterp == InitInterp /\ [][NextInterp]_vars

----------------------------------------------------------------------------
(* Properties of interpolar_taxas, checked under SpecInterp *)

IpCurve == SortByTenor(RowsOfDate(ip.df, ip.data_referencia))
IpTenor == business_days_between(ip.data_referencia, ip.data_do_fluxo_futuro)
IpDone == ip # None /\ ip.pc = "done"

\* the float returned for a series is the stored rate y
SameRate(e, y) == y[1] > 0 /\ e = FromInt(Log10(y))

\* C18 (as stated): at a target tenor equal to a stored tenor, every series
\* returned is that point's stored rate, whatever the stored rate is.
C18_KnotReturnsStoredRate ==
    IpDone =>
        \A k \in 1..Len(IpCurve) :
            IpCurve[k].dias_uteis = IpTenor =>
                \A col \in RateCols : SameRate(Get(ip.taxas)[col], IpCurve[k][col])

\* C18 (amended): at a target tenor equal to a stored tenor, a series whose
\* stored rate is > 0 is returned as that stored rate; a stored rate <= 0 is
\* returned as the floor 1e-12.
C18_KnotReturnsPositiveStoredRate ==
    IpDone =>
        \A k \in 1..Len(IpCurve) :
            IpCurve[k].dias_uteis = IpTenor =>
                \A col \in RateCols :
                    IF IpCurve[k][col][1] > 0
                    THEN SameRate(Get(ip.taxas)[col], IpCurve[k][col])
                    ELSE Get(ip.taxas)[col] = FromInt(LogEps)

\* C18 witness: a call at the tenor of an interior knot of a three-knot curve
\* whose neighbours store different rates has returned.
C18_Witness ==
    /\ IpDone /\ Len(IpCurve) = 3 /\ IpCurve[2].dias_uteis = IpTenor
    /\ IpCurve[1].taxa_nominal # IpCurve[2].taxa_nominal
    /\ IpCurve[3].taxa_real # IpCurve[2].taxa_real
    /\ SameRate(Get(ip.taxas).taxa_real, IpCurve[2].taxa_real)

\* the log-linear formula through the two knots nearest to x, continued
\* beyond them
LogLinearThrough(x, a, b, col) ==
    RAdd(LogFloored(a[col]),
         RMul(RSub(LogFloored(b[col]), LogFloored(a[col])),
              Rat(x - a.dias_uteis, b.dias_uteis - a.dias_uteis)))

\* C19: for a target tenor below the smallest or above the largest stored
\* tenor (curve of at least two points), each series returned is the
\* log-linear formula through the two nearest stored points continued to the
\* target tenor; the result is not held at the boundary rate.
C19_ExtrapolatesOutsideRange ==
    (IpDone /\ Len(IpCurve) >= 2) =>
        LET m == Len(IpCurve)
        IN  /\ IpTenor < IpCurve[1].dias_uteis =>
                  \A col \in RateCols :
                      Get(ip.taxas)[col]
                          = LogLinearThrough(IpTenor, IpCurve[1], IpCurve[2], col)
            /\ IpTenor > IpCurve[m].dias_uteis =>
                  \A col \in RateCols :
                      Get(ip.taxas)[col]
                          = LogLinearThrough(IpTenor, IpCurve[m - 1], IpCurve[m], col)

----------------------------------------------------------------------------
(* Valuation (helpers_calcs.py): current_xirr, current_npv, npv_anbima,    *)
(* xsov_anbima and analyze_CRI                                             *)
(*                                                                         *)
(* A float is NaN, a value written as a rational, or a finite float whose  *)
(* value is not written out ("float").  An annual rate r is written out    *)
(* when 1 + r = b^12 for one of the monthly factors b below and every time *)
(* it discounts over is a whole number of 30/360 months, so that           *)
(* (1 + r)^(days/360) = b^(days/30) is rational.  Discounting over         *)
(* business-day time (days/252) is never rational: the present values of   *)
(* npv_anbima are floats that are not written out.  Inside analyze_CRI the *)
(* calls it makes are part of its steps, and the Newton loop of _xirr is   *)
(* summarised by its possible outcomes.                                    *)

Unset == [kind |-> "unset", v |-> Zero]
NaN == [kind |-> "nan", v |-> Zero]
SomeFloat == [kind |-> "float", v |-> Zero]
Val(x) == [kind |-> "val", v |-> x]

\* np.isnan
IsNan(x) == x.kind = "nan"

\* days360 (helpers_dates.py), US method
days360(a, b) ==
    LET d1 == IF a.d = 31 THEN 30 ELSE a.d
        d2 == IF b.d = 31 /\ d1 = 30 THEN 30 ELSE b.d
    IN  (b.y - a.y) * 360 + (b.m - a.m) * 30 + (d2 - d1)

\* the monthly factors b = (1 + r)^(1/12) of the annual rates written out
MonthlyFactors == {<<1, 2>>, <<3, 4>>, <<1, 1>>, <<3, 2>>, <<2, 1>>}
\* (1 + r) = b^12, by squaring
AnnualOf(b) ==
    LET b3 == RMul(RMul(b, b), b)
        b6 == RMul(b3, b3)
    IN  RSub(RMul(b6, b6), One)
MonthlyOf(r) == CHOOSE b \in MonthlyFactors : AnnualOf(b) = r

WholeMonths(t0, ds) ==
    \A k \in 1..Len(ds) : days360(t0, ds[k]) >= 0 /\ days360(t0, ds[k]) % 30 = 0

\* cf / (1 + r)^(days/360) with 1 + r = b^12
Disc(cf, b, days) == RDiv(cf, RPow(b, days \div 30))

RECURSIVE RSum(_)
RSum(xs) == IF xs = <<>> THEN Zero ELSE RAdd(xs[1], RSum(Tail(xs)))

\* f(r) of _xirr (lines 125-131): times are measured from dates[0]
XirrF(ds, vs, b) ==
    RSum([k \in 1..Len(ds) |-> Disc(vs[k], b, days360(ds[1], ds[k]))])

Numerators(vs) == [k \in 1..Len(vs) |-> vs[k][1]]

\* _xirr (lines 114-167) by its outcomes: NaN from the entry tests or from a
\* pass with dv == 0 or a non-finite iterate; a rate met by a convergence
\* test (a root of f, written out when it is one of the monthly factors); or
\* the last iterate after 100 passes without convergence.  With every
\* cashflow dated dates[0] f is constant and its derivative 0: the first pass
\* returns the guess when the cashflows add up to 0 and NaN otherwise.
XirrOutcomes(ds, vs) ==
    IF Len(ds) < 2 \/ ~HasInAndOut(Numerators(vs))
    THEN {[xirr |-> NaN, converged |-> FALSE]}
    ELSE IF \A k \in 1..Len(ds) : days360(ds[1], ds[k]) = 0
    THEN IF RSum(vs) = Zero THEN {[xirr |-> SomeFloat, converged |-> TRUE]}
         ELSE {[xirr |-> NaN, converged |-> FALSE]}
    ELSE LET roots == IF WholeMonths(ds[1], ds)
                      THEN {b \in MonthlyFactors : XirrF(ds, vs, b) = Zero}
                      ELSE {}
         IN  {[xirr |-> NaN, converged |-> FALSE]}
             \cup {[xirr |-> Val(AnnualOf(b)), converged |-> TRUE] : b \in roots}
             \cup {[xirr |-> SomeFloat, converged |-> TRUE]}
             \cup {[xirr |-> SomeFloat, converged |-> FALSE]}

\* the "pagamento" column as floats: the rows hold cents
Payments(df) == [k \in 1..Len(df) |-> Rat(df[k].pagamento, 100)]

\* the dates and values current_xirr hands to _xirr (lines 54-64): the rows
\* dated on or after the reference date, behind the synthetic purchase when
\* price and quantity are given
XirrCashflows(cashflows, ref, pu, quantity) ==
    LET future == Future(SortByDate(cashflows), ref)
        ds == Column(future, "date")
        vs == Payments(future)
    IN  IF pu # None /\ quantity # None
        THEN [dates |-> <<ref>> \o ds,
              values |-> <<RNeg(RMul(Get(pu), Get(quantity)))>> \o vs]
        ELSE [dates |-> ds, values |-> vs]

\* current_xirr (lines 30-71) by its outcomes
CurrentXirrOutcomes(cashflows, ref, pu, quantity) ==
    LET future == Future(SortByDate(cashflows), ref)
        solved == XirrCashflows(cashflows, ref, pu, quantity)
    IN  IF cashflows = <<>> \/ future = <<>>
        THEN {[xirr |-> NaN, converged |-> FALSE]}
        ELSE XirrOutcomes(solved.dates, solved.values)

\* _npv (helpers_dates.py lines 50-98): [npv, duration]
npv(ds, vs, ref_date, rate) ==
    LET pos == {k \in 1..Len(vs) : vs[k][1] > 0}
    IN  IF ds = <<>> THEN [npv |-> NaN, duration |-> NaN]
        ELSE IF IsNan(rate) THEN [npv |-> NaN, duration |-> NaN]
        ELSE IF rate.kind = "val" /\ WholeMonths(ref_date, ds)
        THEN LET b == MonthlyOf(rate.v)
                 pv == [k \in 1..Len(ds) |-> Disc(vs[k], b, days360(ref_date, ds[k]))]
                 t_years == [k \in 1..Len(ds) |-> Rat(days360(ref_date, ds[k]), 360)]
                 pv_pos == [k \in 1..Len(ds) |-> IF k \in pos THEN pv[k] ELSE Zero]
                 weighted == [k \in 1..Len(ds) |-> RMul(pv_pos[k], t_years[k])]
             IN  [npv |-> Val(RSum(pv)),
                  duration |-> IF pos # {} /\ RSum(pv_pos)[1] > 0
                               THEN Val(RDiv(RSum(weighted), RSum(pv_pos)))
                               ELSE NaN]
        ELSE [npv |-> SomeFloat,
              duration |-> IF pos # {} THEN SomeFloat ELSE NaN]

\* current_npv (lines 78-102): the future rows of the schedule, discounted
\* from the reference date
current_npv(cashflows, ref, rate) ==
    LET future == Future(SortByDate(cashflows), ref)
    IN  IF cashflows = <<>> THEN [npv |-> NaN, duration |-> NaN]
        ELSE IF future = <<>> THEN [npv |-> Val(Zero), duration |-> NaN]
        ELSE npv(Column(future, "date"), Payments(future), ref, rate)

\* int(round(x)): the nearest integer, an exact tie going to the even one
RoundInt(x) ==
    LET whole == x[1] \div x[2]
        rem == x[1] % x[2]
    IN  IF 2 * rem > x[2] THEN whole + 1
        ELSE IF 2 * rem < x[2] THEN whole
        ELSE IF whole % 2 = 0 THEN whole ELSE whole + 1

\* get_rate_structure (rates.py lines 7-16)
get_rate_structure(store, reference_date) ==
    SortByTenor(RowsOfDate(store, reference_date))

\* (df_curve["dias_uteis"] - dias_target).abs().idxmin(): the first row at
\* the least distance
NearestRow(df_curve, dias_target) ==
    LET dist(k) == Abs(df_curve[k].dias_uteis - dias_target)
    IN  CHOOSE k \in 1..Len(df_curve) :
           /\ \A j \in 1..Len(df_curve) : dist(k) <= dist(j)
           /\ \A j \in 1..(k - 1) : dist(j) > dist(k)

\* npv_anbima (lines 108-206) by its outcomes.  security_duration is None or
\* a float; a float that is not written out can anchor the lookup at any row.
NpvAnbimaOutcomes(store, cashflows, ref, tipo_taxa, pu, quantity, security_duration) ==
    LET future == Future(SortByDate(cashflows), ref)
        df_curve == get_rate_structure(store, ref)
        base == [raised |-> "none", curve_read |-> FALSE, npv |-> NaN,
                 lookup_rate |-> NaN, duration |-> NaN, df_out |-> <<>>,
                 series |-> "none", price_subtracted |-> None]
        anchors == IF security_duration = None THEN {0}
                   ELSE IF Get(security_duration).kind = "val"
                   THEN {NearestRow(df_curve,
                                    RoundInt(RMul(Get(security_duration).v,
                                                  FromInt(252))))}
                   ELSE 1..Len(df_curve)
        out(a) ==
            LET fixed == a # 0
                lookup == IF fixed THEN Val(RDiv(df_curve[a][tipo_taxa], FromInt(100)))
                          ELSE NaN
                row(k) ==
                    [ date |-> future[k].date,
                      valor |-> Rat(future[k].pagamento, 100),
                      dias_uteis |-> business_days_between(ref, future[k].date),
                      fixed |-> fixed,
                      taxa |-> IF fixed THEN lookup.v
                               ELSE RSub(Get(interpolar_taxas(df_curve, ref,
                                                              future[k].date))[tipo_taxa],
                                         FromInt(2)) ]
            IN  [base EXCEPT
                    !.curve_read = TRUE,
                    !.npv = SomeFloat,
                    !.lookup_rate = lookup,
                    !.duration = IF \E k \in 1..Len(future) : future[k].pagamento > 0
                                 THEN SomeFloat ELSE NaN,
                    !.df_out = [k \in 1..Len(future) |-> row(k)],
                    !.series = tipo_taxa,
                    !.price_subtracted =
                        IF pu # None /\ quantity # None
                        THEN Some(RMul(Get(pu), Get(quantity))) ELSE None]
    IN  IF cashflows = <<>> THEN {base}
        ELSE IF future = <<>> THEN {[base EXCEPT !.npv = Val(Zero)]}
        ELSE IF df_curve = <<>>
        THEN {[base EXCEPT !.raised = "ValueError", !.curve_read = TRUE]}
        ELSE IF security_duration # None /\ IsNan(Get(security_duration))
        THEN {[base EXCEPT !.raised = "ValueError", !.curve_read = TRUE]}
        ELSE {out(a) : a \in anchors}

SpreadSum(xirr, lookup_rate) ==
    IF xirr.kind = "val" /\ lookup_rate.kind = "val"
    THEN Val(RAdd(xirr.v, lookup_rate.v)) ELSE SomeFloat

\* sov = xirr - lookup_rate (line 261)
Spread(xirr, lookup_rate) ==
    IF xirr.kind = "val" /\ lookup_rate.kind = "val"
    THEN Val(RSub(xirr.v, lookup_rate.v)) ELSE SomeFloat

get_tipo_taxa_TrNominal(indexation) ==
    IF indexation = "IPCA" THEN Some("taxa_real") ELSE Some("taxa_nominal")

\* CRICashflowInput.get_tipo_taxa
get_tipo_taxa(indexation) ==
    IF indexation = "CDI" THEN Some("taxa_nominal")
    ELSE IF indexation = "IPCA" THEN Some("taxa_real")
    ELSE None

NeedsIndexAdjustAnyIndexation(indexation, pu) == pu # None

\* security.indexation == "IPCA" and pu is not None (line 307)
NeedsIndexAdjust(indexation, pu) == indexation = "IPCA" /\ pu # None

\* xsov_anbima (lines 212-275) by its outcomes.  pre is None or the values
\* the caller computed already (pre_xirr, pre_npv_market, pre_duration_xirr).
XsovAnbimaOutcomes(store, cashflows, ref, tipo_taxa, pu, quantity, security_duration, pre) ==
    LET base == [raised |-> "none", curve_read |-> FALSE,
                 xirr |-> Unset, converged |-> FALSE,
                 npv_market |-> Unset, duration_xirr |-> Unset,
                 npv_anbima |-> Unset, lookup_rate |-> Unset,
                 duration_anbima |-> Unset, sov |-> Unset, df_anb |-> <<>>,
                 series |-> "none", price_subtracted |-> None]
        xs == IF pre # None
              THEN {[xirr |-> Get(pre).xirr, converged |-> Get(pre).converged]}
              ELSE CurrentXirrOutcomes(cashflows, ref, pu, quantity)
        finish(b1, a) ==
            LET b2 == [b1 EXCEPT !.curve_read = a.curve_read,
                                 !.npv_anbima = a.npv,
                                 !.lookup_rate = a.lookup_rate,
                                 !.duration_anbima = a.duration,
                                 !.df_anb = a.df_out,
                                 !.series = a.series,
                                 !.price_subtracted = a.price_subtracted]
            IN  IF a.raised # "none"
                THEN [base EXCEPT !.raised = a.raised, !.curve_read = a.curve_read,
                                  !.xirr = b1.xirr, !.converged = b1.converged]
                ELSE IF IsNan(a.lookup_rate)
                THEN [b2 EXCEPT !.raised = "ValueError"]
                ELSE [b2 EXCEPT !.sov = Spread(b1.xirr, a.lookup_rate)]
        after(x) ==
            LET b0 == [base EXCEPT !.xirr = x.xirr, !.converged = x.converged]
                mk == IF pre # None
                      THEN [npv |-> Get(pre).npv_market,
                            duration |-> Get(pre).macaulay_market]
                      ELSE current_npv(cashflows, ref, x.xirr)
                b1 == [b0 EXCEPT !.npv_market = mk.npv, !.duration_xirr = mk.duration]
            IN  IF IsNan(x.xirr)
                THEN {[b0 EXCEPT !.raised = "ValueError"]}
                ELSE {finish(b1, a) :
                        a \in NpvAnbimaOutcomes(store, cashflows, ref, tipo_taxa,
                                                pu, quantity, security_duration)}
    IN  UNION {after(x) : x \in xs}

\* the call ends with an exception
AnRaise(a, kind) == [a EXCEPT !.pc = "raised", !.err = kind]

\* the call takes over what xsov_anbima computed, or its exception
AfterXsov(a, o) ==
    LET a1 == [a EXCEPT !.xirr = o.xirr, !.converged = o.converged,
                        !.npv_market = o.npv_market,
                        !.lookup_rate = o.lookup_rate, !.sov = o.sov,
                        !.series = o.series,
                        !.anbima_price = o.price_subtracted,
                        !.reads = IF o.curve_read THEN a.reads \cup {"curve"}
                                  ELSE a.reads]
    IN  IF o.raised # "none" THEN AnRaise(a1, o.raised)
        ELSE [a1 EXCEPT !.pc = "done",
                        !.result = Some([ sov |-> o.sov,
                                          xirr |-> o.xirr,
                                          lookup_rate |-> o.lookup_rate,
                                          duration_xirr |-> o.duration_xirr,
                                          duration_anbima |-> o.duration_anbima,
                                          npv_market |-> o.npv_market,
                                          npv_anbima |-> o.npv_anbima,
                                          df_anb |-> o.df_anb ])]

\* the schedule frame: the "date" and "pagamento" columns are the ones read
ScheduleFrame(rs) ==
    [k \in 1..Len(rs) |-> [date |-> rs[k].date, pagamento |-> rs[k].pagamento]]

\* analyze_CRI after build_cri_cashflow returned or raised (lines 300-321):
\* the series, the IPCA adjustment of the price, and the prints.  The third
\* print evaluates float(quantity) * float(pu).
AnalyzePrepare ==
    /\ an # None /\ an.fn = "analyze_CRI" /\ an.pc = "build"
    /\ pc \in {"done", "raised"}
    /\ LET tipo == get_tipo_taxa(an.indexation)
           adjust == NeedsIndexAdjust(an.indexation, an.pu)
           ref == an.reference_date
           has(d) == \E r \in an.ipca : r.data = d
           idx(d) == (CHOOSE r \in an.ipca : r.data = d).index
           a0 == [an EXCEPT !.df = ScheduleFrame(rows)]
           a1 == [a0 EXCEPT !.reads = IF adjust THEN {"ipca"} ELSE {}]
       IN  IF pc = "raised" THEN an' = AnRaise(an, err)
           ELSE IF tipo = None THEN an' = AnRaise(a0, "ValueError")
           ELSE IF adjust /\ (~has(inp.data_emissao) \/ ~has(ref))
           THEN an' = AnRaise(a1, "DoesNotExist")
           ELSE LET price == IF adjust
                             THEN Some(RDiv(Get(an.pu),
                                            RDiv(idx(ref), idx(inp.data_emissao))))
                             ELSE an.pu
                    a2 == [a1 EXCEPT !.tipo_taxa = Get(tipo), !.pu_used = price]
                IN  IF an.quantity = None \/ price = None
                    THEN an' = AnRaise(a2, "TypeError")
                    ELSE an' = [a2 EXCEPT !.pc = "xirr"]
    /\ UNCHANGED <<sched_vars, xi, ip, conc, dcall>>

\* lines 324-332: current_xirr, the two Excel files, the NaN test
AnalyzeXirr ==
    /\ an # None /\ an.fn = "analyze_CRI" /\ an.pc = "xirr"
    /\ \E x \in CurrentXirrOutcomes(an.df, an.reference_date, an.pu_used, an.quantity) :
          LET a1 == [an EXCEPT !.xirr = x.xirr, !.converged = x.converged,
                               !.xirr_price = Some(RMul(Get(an.pu_used),
                                                        Get(an.quantity))),
                               !.files = {"cashflows.xlsx", "df_xirr.xlsx"}]
          IN  an' = IF IsNan(x.xirr) THEN AnRaise(a1, "ValueError")
                    ELSE [a1 EXCEPT !.pc = "npv"]
    /\ UNCHANGED <<sched_vars, xi, ip, conc, dcall>>

\* lines 334-336: current_npv at the solved rate
AnalyzeNpv ==
    /\ an # None /\ an.fn = "analyze_CRI" /\ an.pc = "npv"
    /\ LET mk == current_npv(an.df, an.reference_date, an.xirr)
       IN  an' = [an EXCEPT !.pc = "xsov", !.npv_market = mk.npv,
                            !.macaulay_market = mk.duration]
    /\ UNCHANGED <<sched_vars, xi, ip, conc, dcall>>

\* lines 339-359: xsov_anbima with the values computed so far, and the return
AnalyzeXsov ==
    /\ an # None /\ an.fn = "analyze_CRI" /\ an.pc = "xsov"
    /\ \E o \in XsovAnbimaOutcomes(an.curve, an.df, an.reference_date, an.tipo_taxa,
                                   an.pu_used, an.quantity,
                                   Some(an.macaulay_market),
                                   Some([xirr |-> an.xirr,
                                         converged |-> an.converged,
                                         npv_market |-> an.npv_market,
                                         macaulay_market |-> an.macaulay_market])) :
          an' = AfterXsov(an, o)
    /\ UNCHANGED <<sched_vars, xi, ip, conc, dcall>>

\* xsov_anbima called on its own, nothing precomputed
XsovAnbima ==
    /\ an # None /\ an.fn = "xsov_anbima" /\ an.pc = "call"
    /\ \E o \in XsovAnbimaOutcomes(an.curve, an.df, an.reference_date, an.tipo_taxa,
                                   an.pu, an.quantity, an.security_duration, None) :
          an' = AfterXsov([an EXCEPT !.pu_used = an.pu], o)
    /\ UNCHANGED <<sched_vars, xi, ip, conc, dcall>>

\* npv_anbima called on its own
NpvAnbima ==
    /\ an # None /\ an.fn = "npv_anbima" /\ an.pc = "call"
    /\ \E o \in NpvAnbimaOutcomes(an.curve, an.df, an.reference_date, an.tipo_taxa,
                                  an.pu, an.quantity, an.security_duration) :
          LET a1 == [an EXCEPT !.pu_used = an.pu,
                               !.lookup_rate = o.lookup_rate,
                               !.series = o.series,
                               !.anbima_price = o.price_subtracted,
                               !.reads = IF o.curve_read THEN {"curve"} ELSE {}]
          IN  an' = IF o.raised # "none" THEN AnRaise(a1, o.raised)
                    ELSE [a1 EXCEPT !.pc = "done",
                                    !.result = Some([ npv_anbima |-> o.npv,
                                                      lookup_rate |-> o.lookup_rate,
                                                      duration_anbima |-> o.duration,
                                                      df_anb |-> o.df_out ])]
    /\ UNCHANGED <<sched_vars, xi, ip, conc, dcall>>

AnalyzeRefDates == {MkDate(2024, 5, 29), MkDate(2024, 7, 29), MkDate(2024, 10, 29)}

\* the Indice table: curves of two reference dates
CurveTable ==
    << Pt(MkDate(2024, 5, 29), 21, <<10, 1>>, <<1, 1>>, <<10, 1>>),
       Pt(MkDate(2024, 5, 29), 63, <<100, 1>>, <<10, 1>>, <<1, 1>>),
       Pt(MkDate(2024, 7, 29), 21, <<10, 1>>, <<1, 1>>, <<10, 1>>),
       Pt(MkDate(2024, 7, 29), 42, <<100, 1>>, <<10, 1>>, <<1, 1>>) >>
CurveStores == {CurveTable, <<>>}

\* the IPCADiario table: complete, and without the later dates
IpcaStores ==
    { { [data |-> MkDate(2024, 5, 29), index |-> <<100, 1>>],
        [data |-> MkDate(2024, 7, 29), index |-> <<125, 1>>],
        [data |-> MkDate(2024, 10, 29), index |-> <<125, 1>>] },
      { [data |-> MkDate(2024, 5, 29), index |-> <<100, 1>>] } }

Prices == {None, Some(<<1000, 1>>), Some(<<1500, 1>>)}
Quantities == {None, Some(<<1, 1>>)}

\* the securities valued: monthly schedules of 1..MaxN periods, and one whose
\* schedule cannot be built
AnalyzeSecurities ==
    { i \in Inputs :
        /\ i.numero_parcelas # None /\ Get(i.numero_parcelas) >= 1
        /\ i.taxa_nominal_aa # None
        /\ i.carencia_meses = 0
        /\ i.freq_principal_meses = 1 /\ i.freq_juros_meses = 1
        /\ i.cap = <<0, 0>>
        /\ \/ i.tabela_juros \in {Some("Integral"), Some("price")}
           \/ /\ i.tabela_juros = Some("Outra") /\ Get(i.numero_parcelas) = 1
              /\ i.principal_method = "SAC" /\ i.taxa_nominal_aa = Some(One) }

AnArgs(fns, pcs, indexations, refs, pus, qs, durations, stores, ipcas, dfs, tipos) ==
    [ fn : fns, pc : pcs, indexation : indexations, reference_date : refs,
      pu : pus, quantity : qs, security_duration : durations,
      curve : stores, ipca : ipcas, df : dfs, tipo_taxa : tipos,
      err : {"none"}, pu_used : {None},
      xirr : {Unset}, converged : {FALSE}, xirr_price : {None},
      npv_market : {Unset}, macaulay_market : {Unset}, lookup_rate : {Unset},
      sov : {Unset}, series : {"none"}, anbima_price : {None},
      reads : {{}}, files : {{}}, result : {None} ]

AnalyzeCalls ==
    AnArgs({"analyze_CRI"}, {"build"}, {"CDI", "IPCA", "TR"}, AnalyzeRefDates,
           Prices, Quantities, {None}, CurveStores, IpcaStores, {<<>>}, {"none"})

\* frames handed to xsov_anbima directly: a coupon and a redemption; two
\* inflows with the purchase already in the frame; nothing after the
\* reference date
XsovFrames ==
    { << [date |-> MkDate(2024, 7, 29), pagamento |-> 50000],
         [date |-> MkDate(2024, 8, 29), pagamento |-> 150000] >>,
      << [date |-> MkDate(2024, 7, 29), pagamento |-> -100000],
         [date |-> MkDate(2024, 8, 29), pagamento |-> 150000] >>,
      << [date |-> MkDate(2024, 5, 29), pagamento |-> 150000] >> }

XsovCalls ==
    AnArgs({"xsov_anbima"}, {"call"}, {"CDI"}, {MkDate(2024, 7, 29)},
           {None, Some(<<1500, 1>>)}, Quantities,
           {None, Some(NaN), Some(Val(<<1, 12>>)), Some(Val(<<1, 6>>))},
           CurveStores, {{}}, XsovFrames, {"taxa_nominal", "taxa_real"})

\* frames handed to npv_anbima directly: those above, and one with a row
\* dated before the reference date
NpvFrames ==
    XsovFrames \cup
    { << [date |-> MkDate(2024, 5, 29), pagamento |-> 50000],
         [date |-> MkDate(2024, 7, 29), pagamento |-> 50000],
         [date |-> MkDate(2024, 8, 29), pagamento |-> 150000] >> }

NpvCalls ==
    AnArgs({"npv_anbima"}, {"call"}, {"CDI"}, {MkDate(2024, 7, 29)},
           {None, Some(<<1500, 1>>)}, Quantities,
           {None, Some(NaN), Some(Val(<<1, 12>>)), Some(Val(<<1, 8>>)),
            Some(Val(<<1, 6>>))},
           CurveStores, {{}}, NpvFrames, {"taxa_nominal", "taxa_real"})

InitAnalyze ==
    /\ xi = None /\ ip = None /\ conc = None /\ dcall = None
    /\ SchedIdle
    /\ \/ /\ an \in AnalyzeCalls
          /\ entry = "build_cri_cashflow" /\ inp \in AnalyzeSecurities /\ pc = "call"
       \/ /\ an \in XsovCalls \cup NpvCalls
          /\ entry = "none" /\ inp = None /\ pc = "idle"

NextAnalyze ==
    Setup \/ LoopStep \/ Finish \/ AnalyzePrepare \/ AnalyzeXirr \/ AnalyzeNpv
    \/ AnalyzeXsov \/ XsovAnbima \/ NpvAnbima

SpecAnalyze == InitAnalyze /\ [][NextAnalyze]_vars

----------------------------------------------------------------------------
(* Properties of analyze_CRI and xsov_anbima, checked under SpecAnalyze *)

AnAnalyze == an # None /\ an.fn = "analyze_CRI"
ScheduleBuilt == pc = "done"
IndexAt(d) == (CHOOSE r \in an.ipca : r.data = d).index

\* C12: when the XIRR is undefined (current_xirr gave NaN, or the solve ended
\* without converging) the call ends by raising: the market NPV and duration,
\* the curve lookup, the curve NPV and the spread are never computed, the
\* curve store is not read, and nothing is returned.
C12_UndefinedXirrFailsValuation ==
    (AnAnalyze /\ an.xirr # Unset /\ (an.xirr.kind = "nan" \/ ~an.converged)) =>
        /\ an.pc = "raised" /\ an.err = "ValueError"
        /\ "curve" \notin an.reads
        /\ an.npv_market = Unset /\ an.macaulay_market = Unset
        /\ an.lookup_rate = Unset /\ an.sov = Unset
        /\ an.result = None

\* C13: the market NPV analyze_CRI reports at a solved (converged) XIRR is 0
\* within a cent (reference date after the issue date, price and quantity
\* given).
C13_MarketNpvIsZero ==
    (AnAnalyze /\ an.pc = "done" /\ an.converged /\ an.xirr.kind = "val"
       /\ DateLt(inp.data_emissao, an.reference_date)) =>
        /\ an.npv_market.kind = "val"
        /\ RLe(an.npv_market.v, <<1, 100>>)
        /\ RLe(<<-1, 100>>, an.npv_market.v)

\* C14: called with neither price nor quantity, for a supported indexation, a
\* schedule that was built and a curve stored for the reference date,
\* analyze_CRI does not fail on the absent price or quantity.
C14_PriceAndQuantityOptional ==
    (AnAnalyze /\ an.pu = None /\ an.quantity = None /\ ScheduleBuilt
       /\ an.indexation \in {"CDI", "IPCA"}
       /\ get_rate_structure(an.curve, an.reference_date) # <<>>) =>
        ~(an.pc = "raised" /\ an.err = "TypeError")

\* C15: the series analyze_CRI uses is taxa_nominal for CDI and taxa_real for
\* IPCA, it is the series the curve lookup reads, and for any other
\* indexation (the schedule having been built) the call raises ValueError
\* before reading a store or writing a file, and returns nothing.
C15_IndexationSeries ==
    AnAnalyze =>
        /\ an.tipo_taxa # "none" =>
              \/ an.indexation = "CDI" /\ an.tipo_taxa = "taxa_nominal"
              \/ an.indexation = "IPCA" /\ an.tipo_taxa = "taxa_real"
        /\ an.series # "none" => an.series = an.tipo_taxa
        /\ an.pc = "done" =>
              \E k \in 1..Len(an.curve) :
                  /\ an.curve[k].data_da_tabela = an.reference_date
                  /\ an.lookup_rate
                        = Val(RDiv(an.curve[k][IF an.indexation = "CDI"
                                               THEN "taxa_nominal" ELSE "taxa_real"],
                                   FromInt(100)))
        /\ (an.indexation \notin {"CDI", "IPCA"} /\ ScheduleBuilt /\ an.pc # "build") =>
              /\ an.pc = "raised" /\ an.err = "ValueError"
              /\ an.reads = {} /\ an.files = {} /\ an.result = None

\* C15 witness: a TR security whose schedule was built has been refused.
C15_Witness ==
    /\ AnAnalyze /\ an.indexation = "TR" /\ ScheduleBuilt
    /\ an.pc = "raised" /\ an.err = "ValueError"

\* C16: the index store is read exactly when the indexation is IPCA and a
\* price is given; the price used is then price / (index(reference date) /
\* index(issue date)), otherwise the price given; the purchase outflow of the
\* XIRR and the price subtracted in the curve NPV are that price times the
\* quantity.
C16_PriceAdjustment ==
    (AnAnalyze /\ ScheduleBuilt /\ an.pc # "build"
       /\ an.indexation \in {"CDI", "IPCA"}) =>
        LET adjust == an.indexation = "IPCA" /\ an.pu # None
            price == IF adjust
                     THEN RDiv(Get(an.pu), RDiv(IndexAt(an.reference_date),
                                                IndexAt(inp.data_emissao)))
                     ELSE Get(an.pu)
        IN  /\ ("ipca" \in an.reads) <=> adjust
            /\ an.pu_used # None => an.pu_used = Some(price)
            /\ an.xirr_price # None =>
                  an.xirr_price = Some(RMul(price, Get(an.quantity)))
            /\ an.anbima_price # None =>
                  an.anbima_price = Some(RMul(price, Get(an.quantity)))

\* C16 witness: an IPCA valuation with a price of 1000 and an index that rose
\* from 100 to 125 has returned, having used the price 800.
C16_Witness ==
    /\ AnAnalyze /\ an.pc = "done" /\ an.indexation = "IPCA"
    /\ an.pu = Some(<<1000, 1>>) /\ an.pu_used = Some(<<800, 1>>)
    /\ an.anbima_price = Some(<<800, 1>>)

\* C17: a spread is returned only with a defined xirr and a defined curve
\* lookup rate and equals xirr - lookup rate; xsov_anbima called without a
\* duration anchor, or with a NaN xirr, returns nothing.
C17_Spread ==
    (an # None /\ an.fn \in {"analyze_CRI", "xsov_anbima"}) =>
        /\ an.pc = "done" =>
              /\ an.xirr.kind \in {"val", "float"}
              /\ an.lookup_rate.kind = "val"
              /\ an.sov = IF an.xirr.kind = "val"
                          THEN Val(RSub(an.xirr.v, an.lookup_rate.v))
                          ELSE SomeFloat
              /\ Get(an.result).sov = an.sov
        /\ (an.fn = "xsov_anbima" /\ an.security_duration = None) =>
              /\ an.pc # "done" /\ an.sov = Unset
              /\ an.pc = "raised" => an.err = "ValueError"
        /\ an.xirr.kind = "nan" => (an.pc # "done" /\ an.sov = Unset)

\* C17 witness: xsov_anbima has returned a spread computed from a written-out
\* xirr and a lookup rate.
C17_Witness ==
    /\ an # None /\ an.fn = "xsov_anbima" /\ an.pc = "done"
    /\ an.xirr.kind = "val" /\ an.sov.kind = "val"
    /\ an.sov.v # an.xirr.v

\* the cashflows the XIRR of the call was solved on
Solved == XirrCashflows(an.df, an.reference_date, an.pu_used, an.quantity)

\* C29: with a price and a quantity, the cashflows current_xirr solves on
\* hold exactly one outflow dated at the reference date, the purchase
\* -price * quantity, for every reference date.
C29_SinglePurchaseOutflow ==
    (AnAnalyze /\ an.xirr # Unset /\ an.pu_used # None /\ an.quantity # None) =>
        /\ Solved.dates[1] = an.reference_date
        /\ Solved.values[1] = RNeg(RMul(Get(an.pu_used), Get(an.quantity)))
        /\ Cardinality({k \in 1..Len(Solved.dates) :
                            /\ Solved.dates[k] = an.reference_date
                            /\ Solved.values[k][1] < 0}) = 1

RAbs(x) == IF x[1] < 0 THEN RNeg(x) ELSE x

\* C26: the rows npv_anbima discounts are the cashflows dated on or after the
\* reference date and no others; with a duration given every row carries the
\* rate of a curve point whose tenor is nearest to duration * 252 business
\* days, otherwise each row carries the rate interpolated at its own date;
\* price * quantity is subtracted exactly when both are given.
C26_NpvAnbimaDiscounting ==
    (an # None /\ an.fn \in {"npv_anbima", "xsov_anbima"} /\ an.pc = "done") =>
        LET out == Get(an.result).df_anb
            ref == an.reference_date
            kept == {k \in 1..Len(an.df) : ~DateLt(an.df[k].date, ref)}
            curve == get_rate_structure(an.curve, ref)
            target == RMul(Get(an.security_duration).v, FromInt(252))
            away(c) == RAbs(RSub(FromInt(curve[c].dias_uteis), target))
        IN  /\ Len(out) = Cardinality(kept)
            /\ \A k \in kept : \E j \in 1..Len(out) :
                  /\ out[j].date = an.df[k].date
                  /\ out[j].valor = Rat(an.df[k].pagamento, 100)
                  /\ out[j].dias_uteis = business_days_between(ref, an.df[k].date)
            /\ IF out = <<>> THEN TRUE
               ELSE IF an.security_duration # None
               THEN \E c \in 1..Len(curve) :
                       /\ \A c2 \in 1..Len(curve) : RLe(away(c), away(c2))
                       /\ \A j \in 1..Len(out) :
                             /\ out[j].fixed
                             /\ out[j].taxa = RDiv(curve[c][an.tipo_taxa], FromInt(100))
               ELSE \A j \in 1..Len(out) :
                       /\ ~out[j].fixed
                       /\ out[j].taxa
                             = RSub(Get(interpolar_taxas(curve, ref, out[j].date))[an.tipo_taxa],
                                    FromInt(2))
            /\ an.anbima_price
                  = IF an.pu # None /\ an.quantity # None
                    THEN Some(RMul(Get(an.pu), Get(an.quantity))) ELSE None

\* the exception kind analyze_CRI raises for an undefined XIRR (line 332)
XirrErrorKind == "ValueError"

\* the call ended because reference data is missing: no curve row for the
\* reference date (read by npv_anbima), or no index row for the issue date or
\* the reference date of an IPCA security with a price
MissingCurve ==
    /\ "curve" \in an.reads
    /\ get_rate_structure(an.curve, an.reference_date) = <<>>
MissingIndex ==
    /\ "ipca" \in an.reads /\ an.pu_used = None
    /\ \E d \in {inp.data_emissao, an.reference_date} :
          \A r \in an.ipca : r.data # d

\* C21: when analyze_CRI ends because the curve of the reference date or a
\* needed index value is missing, the kind of the exception differs from the
\* kind raised for an undefined XIRR.
C21_DataErrorKindDistinct ==
    (AnAnalyze /\ an.pc = "raised" /\ ScheduleBuilt /\ an.tipo_taxa # "none"
       /\ (MissingCurve \/ MissingIndex)) =>
        an.err # XirrErrorKind

----------------------------------------------------------------------------
(* Concurrent invocations of analyze_CRI.  Everything an invocation computes *)
(* is local to it; what invocations of one server process share is the       *)
(* working directory, where analyze_CRI writes "cashflows.xlsx" and          *)
(* "df_xirr.xlsx" (lines 328-329).  A step is a stretch of the function      *)
(* between two accesses to what is shared.                                   *)

NumInvocations == 2
Invocations == 1..NumInvocations
FileNames == {"cashflows.xlsx", "df_xirr.xlsx"}

\* to_excel(name) by invocation p: the file now holds p's frame; a file that
\* held another invocation's frame was overwritten
ToExcel(c, p, name) ==
    [c EXCEPT !.files[name] = p,
              !.clobbered = IF c.files[name] \notin {0, p}
                            THEN c.clobbered \cup {name} ELSE c.clobbered]

\* lines 300-304: the schedule and the series; a schedule that cannot be
\* built or an unsupported indexation ends the call
ConcBuild(p) ==
    /\ conc # None /\ conc.pc[p] = "start"
    /\ \E next \in {"index", "raised"} :
          conc' = [conc EXCEPT !.pc[p] = next]
    /\ UNCHANGED <<sched_vars, xi, an, ip, dcall>>

\* lines 306-326: the index store is read (IPCA with a price), then the
\* prints and current_xirr
ConcReadIndex(p) ==
    /\ conc # None /\ conc.pc[p] = "index"
    /\ \E next \in {"excel1", "raised"} :
          conc' = [conc EXCEPT !.pc[p] = next]
    /\ UNCHANGED <<sched_vars, xi, an, ip, dcall>>

\* line 328: cashflows.to_excel("cashflows.xlsx")
ConcWriteCashflows(p) ==
    /\ conc # None /\ conc.pc[p] = "excel1"
    /\ conc' = [ToExcel(conc, p, "cashflows.xlsx") EXCEPT !.pc[p] = "excel2"]
    /\ UNCHANGED <<sched_vars, xi, an, ip, dcall>>

\* line 329: df_xirr.to_excel("df_xirr.xlsx")
ConcWriteDfXirr(p) ==
    /\ conc # None /\ conc.pc[p] = "excel2"
    /\ conc' = [ToExcel(conc, p, "df_xirr.xlsx") EXCEPT !.pc[p] = "check"]
    /\ UNCHANGED <<sched_vars, xi, an, ip, dcall>>

\* lines 331-336: the NaN test and current_npv
ConcCheck(p) ==
    /\ conc # None /\ conc.pc[p] = "check"
    /\ \E next \in {"curve", "raised"} :
          conc' = [conc EXCEPT !.pc[p] = next]
    /\ UNCHANGED <<sched_vars, xi, an, ip, dcall>>

\* lines 339-359: xsov_anbima reads the curve store, and the return
ConcReadCurve(p) ==
    /\ conc # None /\ conc.pc[p] = "curve"
    /\ \E next \in {"done", "raised"} :
          conc' = [conc EXCEPT !.pc[p] = next]
    /\ UNCHANGED <<sched_vars, xi, an, ip, dcall>>

InitConc ==
    /\ entry = "none" /\ inp = None /\ pc = "idle"
    /\ SchedIdle
    /\ xi = None /\ an = None /\ ip = None /\ dcall = None
    /\ conc = [ pc |-> [p \in Invocations |-> "start"],
                files |-> [f \in FileNames |-> 0],
                clobbered |-> {} ]

NextConc ==
    \E p \in Invocations :
        \/ ConcBuild(p) \/ ConcReadIndex(p) \/ ConcWriteCashflows(p)
        \/ ConcWriteDfXirr(p) \/ ConcCheck(p) \/ ConcReadCurve(p)

SpecConc == InitConc /\ [][NextConc]_vars

\* C20: analyze_CRI writes nothing that invocations share: no file an
\* invocation wrote is overwritten by another invocation, in any
\* interleaving.
C20_NoSharedWrites ==
    conc # None => conc.clobbered = {}

----------------------------------------------------------------------------
(* The date utilities: business_days_between as defined in business_days.py *)
(* and as defined again in helpers_dates.py, and the term of a security     *)
(* recovered from its maturity date                                         *)

MaxMonths == 4

\* pd.bdate_range(a, b): the Monday-to-Friday days from a to b, by ordinal
BDateRange(a, b) == {o \in a..b : (o + 6) % 7 < 5}

\* business_days_between of helpers_dates.py (lines 31-43): the arguments are
\* swapped when start > end, and the length of the range is returned
BDays(start, end) ==
    IF DateLt(end, start)
    THEN Cardinality(BDateRange(Ordinal(end) + 1, Ordinal(start)))
    ELSE Cardinality(BDateRange(Ordinal(start) + 1, Ordinal(end)))

\* a Wednesday, a holiday Thursday, a Friday, a weekend, and two Mondays
DayArgs ==
    {MkDate(2024, 5, 29), MkDate(2024, 5, 30), MkDate(2024, 5, 31),
     MkDate(2024, 6, 1), MkDate(2024, 6, 2), MkDate(2024, 6, 3),
     MkDate(2024, 6, 10)}

\* issue dates: mid-month, and the last days of months of 31, 30 and 29 days
IssueDays ==
    {MkDate(2024, 1, 15), MkDate(2024, 1, 29), MkDate(2024, 1, 30),
     MkDate(2024, 1, 31), MkDate(2024, 2, 29), MkDate(2024, 4, 30),
     MkDate(2024, 5, 29), MkDate(2023, 12, 31)}

DateCalls ==
    { c \in [ fn : {"business_days", "helpers_dates", "months"},
              pc : {"call"}, start : DayArgs \cup IssueDays,
              end : DayArgs \cup IssueDays, m : 0..MaxMonths, result : {0} ] :
        \/ /\ c.fn = "business_days" /\ c.m = 0
           /\ c.start \in DayArgs /\ c.end \in DayArgs /\ DateLe(c.start, c.end)
        \/ /\ c.fn = "helpers_dates" /\ c.m = 0
           /\ c.start \in DayArgs /\ c.end \in DayArgs
        \/ /\ c.fn = "months" /\ c.m >= 1
           /\ c.start \in IssueDays /\ c.end = c.start }

\* business_days_between of business_days.py, as rates.py and helpers_calcs.py
\* call it: start is the reference date, end a date on or after it
BusinessDaysBetween ==
    /\ dcall # None /\ dcall.fn = "business_days" /\ dcall.pc = "call"
    /\ dcall' = [dcall EXCEPT !.pc = "done",
                        !.result = business_days_between(dcall.start, dcall.end)]
    /\ UNCHANGED <<sched_vars, xi, an, ip, conc>>

\* business_days_between of helpers_dates.py
HelpersBusinessDaysBetween ==
    /\ dcall # None /\ dcall.fn = "helpers_dates" /\ dcall.pc = "call"
    /\ dcall' = [dcall EXCEPT !.pc = "done", !.result = BDays(dcall.start, dcall.end)]
    /\ UNCHANGED <<sched_vars, xi, an, ip, conc>>

\* the maturity date of an m-period security, _add_months(issue, m), and the
\* term build_cri_cashflow derives from it (cashflow.py line 131)
TermFromMaturity ==
    /\ dcall # None /\ dcall.fn = "months" /\ dcall.pc = "call"
    /\ LET maturity == add_months(dcall.start, dcall.m)
       IN  dcall' = [dcall EXCEPT !.pc = "done", !.end = maturity,
                           !.result = months_diff_approx(dcall.start, maturity)]
    /\ UNCHANGED <<sched_vars, xi, an, ip, conc>>

InitDates ==
    /\ entry = "none" /\ inp = None /\ pc = "idle"
    /\ SchedIdle
    /\ xi = None /\ an = None /\ ip = None /\ conc = None
    /\ dcall \in DateCalls

NextDates == BusinessDaysBetween \/ HelpersBusinessDaysBetween \/ TermFromMaturity

SpecDates == InitDates /\ [][NextDates]_vars

\* the days strictly after a up to and including b that are business days of
\* the calendar the function counts on
DaysCounted(a, b) ==
    IF dcall.fn = "business_days"
    THEN Cardinality({o \in (Ordinal(a) + 1)..Ordinal(b) : IsBusinessDay(o)})
    ELSE Cardinality({o \in (Ordinal(a) + 1)..Ordinal(b) : (o + 6) % 7 < 5})

\* C27: business_days_between(start, end) is the number of business days
\* strictly after start up to and including end, and for end < start the
\* negated count of the swapped arguments.
C27_SwapAndNegate ==
    (dcall # None /\ dcall.pc = "done" /\ dcall.fn \in {"business_days", "helpers_dates"}) =>
        dcall.result = IF DateLt(dcall.end, dcall.start)
                    THEN -DaysCounted(dcall.end, dcall.start)
                    ELSE DaysCounted(dcall.start, dcall.end)

\* C28: the term derived from the maturity date of an m-period security,
\* _months_diff_approx(d, _add_months(d, m)), is m.
C28_TermFromMaturityIsTerm ==
    (dcall # None /\ dcall.pc = "done" /\ dcall.fn = "months") => dcall.result = dcall.m

=============================================================================
